---- MODULE Spec2Model ----
(***************************************************************************)
(* Model of cloudprober's prober package (src/prober/prober.go): the probe *)
(* registry and its cancel-function map under the Prober mutex, the probe  *)
(* worker goroutines, the start tasks of Start, and the goroutine of Start *)
(* that distributes EventMetrics from dataChan to the surfacers.           *)
(*                                                                         *)
(* Every exported operation holds pr.mu from its first to its last         *)
(* statement (Lock / defer Unlock), so each one is one atomic action.      *)
(***************************************************************************)
EXTENDS Integers, Sequences, FiniteSets, TLC

(***************************************************************************)
(* Bounds of the model.                                                    *)
(***************************************************************************)
\* Number of probe worker goroutines ever spawned in one behaviour.
MaxWorkers == 2
\* Number of EventMetrics ever produced in one behaviour.
MaxEvents == 3
\* Capacity of dataChan in the model (100000 in the code, prober.go:220).
ChanCap == 2
\* Number of surfacers returned by surfacers.Init.
NumSurfacers == 2

\* logger.MaxLogEntrySize, the limit of prober.go:227, scaled down.
MaxLogEntrySize == 2

\* Probe names the callers use.
Names == {"p1", "p2"}
\* Durations are counted in microseconds.
Millisecond == 1000
Second == 1000 * Millisecond

\* Probe intervals (p.Options.Interval) of the definitions the callers add.
Intervals == {10 * Second, 30 * Second}
\* sysvars.Vars()["hostname"], as a sequence of characters.
Hostname == <<"a", "b">>
\* run_on patterns of the probe definitions: none, one that matches the
\* hostname, one that is valid and does not match, one that does not compile.
RunOnPatterns == {<<>>, <<"a", ".">>, <<"b", "*", "a", "a">>, <<"(">>}
\* len(em.String()) of the events the producers emit.
EventSizes == {MaxLogEntrySize, MaxLogEntrySize + 1}

Surfacers == 1..NumSurfacers
NoEm == [id |-> 0, size |-> 0]
EventMetrics == [id : 1..MaxEvents, size : EventSizes]
ProbeDefs == [name : Names, runOn : RunOnPatterns, interval : Intervals]

VARIABLES
    Probes,             \* pr.Probes: name -> ProbeInfo (its Options.Interval)
    probeCancelFunc,    \* pr.probeCancelFunc: name -> the worker its func cancels
    probeStartContext,  \* pr.probeStartContext: "nil", or "ctx" once Start ran
    ctxDone,            \* the context given to Start has been cancelled
    workers,            \* the goroutines of line 263, in spawn order
    startTasks,         \* pending `go pr.startProbe(ctx, name)` goroutines
    buckets,            \* the per-interval goroutines of startProbesWithJitter
    dataChan,           \* pr.dataChan: the buffered events
    sysvarsSend,        \* the event sysvars.Start / a server is sending, or NoEm
    pipe,               \* the distribution goroutine: [pc, em, idx]
    written,            \* per surfacer, the events its Write was called with
    warnings,           \* ids of the events glog.Warningf reported as dropped
    readLog,            \* the events read from dataChan, in order (history)
    sentLog,            \* the events sent on dataChan, in order (history)
    nextEm,             \* id of the next event produced
    stuck,              \* surfacers whose Write does not return
    disableJitter,      \* pr.c.GetDisableJitter()
    lastOp,             \* the last exported operation and what it returned
    panicked,           \* a goroutine panicked: the process is gone
    mu,                 \* pr.mu: "" when unlocked, else the task that holds it
    calls,              \* the concurrent calls of AddProbe / RemoveProbe, by name
    reg0,               \* the registry when the concurrent calls were made
    iter,               \* the range of Start over pr.Probes (lines 251, 342)
    raced               \* two tasks accessed pr.Probes without synchronisation

vars == <<Probes, probeCancelFunc, probeStartContext, ctxDone, workers,
          startTasks, buckets, dataChan, sysvarsSend, pipe, written,
          warnings, readLog, sentLog, nextEm, stuck, disableJitter, lastOp,
          panicked, mu, calls, reg0, iter, raced>>

lifecycleVars == <<Probes, probeCancelFunc, workers, lastOp, panicked>>
startVars == <<probeStartContext, startTasks, buckets>>
pipeVars == <<pipe, written, warnings, readLog, sentLog>>
cfgVars == <<stuck, disableJitter>>
lockVars == <<mu, calls, reg0, iter, raced>>

(***************************************************************************)
(* runOnThisHost (lines 80-89).  regexp.Compile and Regexp.MatchString are *)
(* modelled on the patterns made of literals, '.', '*' and '('.            *)
(***************************************************************************)
\* regexp.Compile fails on an unclosed group and on a repetition operator
\* that has no argument or follows another one.
RegexpCompiles(p) ==
    /\ \A i \in 1..Len(p) : p[i] # "("
    /\ \A i \in 1..Len(p) :
          p[i] = "*" => (i > 1 /\ p[i - 1] # "*")

AtomMatches(a, c) == a = "." \/ a = c

RECURSIVE MatchHere(_, _)
\* The pattern p matches a prefix of s.
MatchHere(p, s) ==
    IF p = <<>> THEN TRUE
    ELSE IF Len(p) >= 2 /\ p[2] = "*"
         THEN \/ MatchHere(SubSeq(p, 3, Len(p)), s)
              \/ /\ s # <<>>
                 /\ AtomMatches(p[1], s[1])
                 /\ MatchHere(p, Tail(s))
         ELSE /\ s # <<>>
              /\ AtomMatches(p[1], s[1])
              /\ MatchHere(Tail(p), Tail(s))

\* Regexp.MatchString is unanchored: the pattern matches some substring.
MatchString(p, s) ==
    \E i \in 1..(Len(s) + 1) : MatchHere(p, SubSeq(s, i, Len(s)))

\* The (bool, error) pair of runOnThisHost, as "run", "skip" or "error".
runOnThisHost(runOn, hostname) ==
    IF runOn = <<>> THEN "run"
    ELSE IF ~RegexpCompiles(runOn) THEN "error"
    ELSE IF MatchString(runOn, hostname) THEN "run"
    ELSE "skip"

\* runHere of line 96 for each pattern of the model, on this host.
runHereOf == [runOn \in RunOnPatterns |-> runOnThisHost(runOn, Hostname)]

(***************************************************************************)
(* Helpers on functions used as Go maps.                                   *)
(***************************************************************************)
MapPut(m, k, v) == [x \in DOMAIN m \cup {k} |-> IF x = k THEN v ELSE m[x]]
MapDelete(m, k) == [x \in DOMAIN m \ {k} |-> m[x]]
EmptyMap == [x \in {} |-> 0]

\* A worker's context is done when its own cancel function was called or
\* the context it derives from (the one given to Start) is done.
CtxCancelled(w) == workers[w].cancelled \/ ctxDone
Started == probeStartContext # "nil"

\* A call of AddProbe(def) or RemoveProbe(def.name) by a task of its own:
\* pc is "lock" before pr.mu.Lock(), "locked" in the critical section
\* before the body has run, "unlock" after it, and "done" once the deferred
\* Unlock has run; build is what BuildProbeOptions and CreateProbe returned,
\* err the error of the call, acc how the body accessed pr.Probes.
NoDef == [name |-> "", runOn |-> <<>>, interval |-> 0]
NoCall == [op |-> "none", def |-> NoDef, pc |-> "done", build |-> "notCalled",
           err |-> "nil", acc |-> "none"]

Init ==
    /\ Probes = EmptyMap
    /\ probeCancelFunc = EmptyMap
    /\ probeStartContext = "nil"
    /\ ctxDone = FALSE
    /\ workers = <<>>
    /\ startTasks = {}
    /\ buckets = <<>>
    /\ dataChan = <<>>
    /\ sysvarsSend = NoEm
    /\ pipe = [pc |-> "off", em |-> NoEm, idx |-> 0]
    /\ written = [s \in Surfacers |-> <<>>]
    /\ warnings = <<>>
    /\ readLog = <<>>
    /\ sentLog = <<>>
    /\ nextEm = 1
    /\ stuck \in SUBSET Surfacers
    /\ disableJitter \in BOOLEAN
    /\ lastOp = [op |-> "none", name |-> "", err |-> "nil", after |-> ""]
    /\ panicked = FALSE
    /\ mu = ""
    /\ calls = [n \in Names |-> NoCall]
    /\ reg0 = EmptyMap
    /\ iter = "off"
    /\ raced = FALSE


(***************************************************************************)
(* The helpers that run under pr.mu.                                       *)
(***************************************************************************)
\* A context made by context.WithCancel (line 261) and the goroutine of
\* line 263 that runs under it.  pc is "spawned" (the goroutine exists and
\* has not run yet), "running", "sending" (blocked in dataChan <- em),
\* "returned", or "nogo" when line 263 panicked before spawning it.
NewWorker(name, pc) ==
    [name |-> name, cancelled |-> FALSE, pc |-> pc, send |-> NoEm]

\* Variant of stopProbeCancelFunc without the delete of line 296.
stopProbeCancelFunc_NoDelete(cf, name) == cf

\* _stopProbeWithNoLock (lines 288-298), on the cancel-function map: the
\* entry of name is deleted when there is one (line 296).
stopProbeCancelFunc(cf, name) ==
    IF name \in DOMAIN cf THEN MapDelete(cf, name) ELSE cf

\* _stopProbeWithNoLock (lines 288-298), on the contexts: the function
\* stored under name is called (line 295), which cancels its context.
stopProbeWorkers(ws, cf, name) ==
    IF name \in DOMAIN cf
    THEN [ws EXCEPT ![cf[name]].cancelled = TRUE]
    ELSE ws

\* Variant of stopAllCancelFunc whose loop ends after its first turn.
stopAllCancelFunc_FirstOnly(cf, names) ==
    IF names = {} THEN cf
    ELSE stopProbeCancelFunc(cf, CHOOSE x \in names : TRUE)

RECURSIVE stopAllCancelFunc(_, _)
\* The loop of StopAllProbes (lines 313-315) on the cancel-function map.
stopAllCancelFunc(cf, names) ==
    IF names = {} THEN cf
    ELSE LET n == CHOOSE x \in names : TRUE
         IN  stopAllCancelFunc(stopProbeCancelFunc(cf, n), names \ {n})

RECURSIVE stopAllWorkers(_, _, _)
\* The loop of StopAllProbes (lines 313-315) on the contexts.
stopAllWorkers(ws, cf, names) ==
    IF names = {} THEN ws
    ELSE LET n == CHOOSE x \in names : TRUE
         IN  stopAllWorkers(stopProbeWorkers(ws, cf, n),
                            stopProbeCancelFunc(cf, n), names \ {n})

\* _startProbeWithNoLock (lines 260-264) on the cancel-function map: the new
\* cancel function is stored under name, replacing the one that was there.
startProbeCancelFunc(cf, ws, name) == MapPut(cf, name, Len(ws) + 1)

\* _startProbeWithNoLock (lines 260-264) on the contexts: a context is made
\* and the worker goroutine spawned under it.  `go pr.Probes[name].Start`
\* evaluates pr.Probes[name].Start in the caller: for a name that is not in
\* the registry that is a nil dereference, after line 262 stored the handle.
startProbeWorkers(ws, reg, name) ==
    Append(ws, NewWorker(name, IF name \in DOMAIN reg THEN "spawned" ELSE "nogo"))

RECURSIVE startAllCancelFunc(_, _, _)
\* The loop of StartAllProbes (lines 282-284) on the cancel-function map.
startAllCancelFunc(cf, ws, names) ==
    IF names = {} THEN cf
    ELSE LET n == CHOOSE x \in names : TRUE
         IN  startAllCancelFunc(startProbeCancelFunc(cf, ws, n),
                                Append(ws, NewWorker(n, "spawned")),
                                names \ {n})

RECURSIVE startAllWorkers(_, _, _)
\* The loop of StartAllProbes (lines 282-284) on the contexts.
startAllWorkers(ws, reg, names) ==
    IF names = {} THEN ws
    ELSE LET n == CHOOSE x \in names : TRUE
         IN  startAllWorkers(startProbeWorkers(ws, reg, n), reg, names \ {n})

\* The record of an operation that took pr.mu: its name, its argument, the
\* error it returned ("nil" for none), and, for StopProbe, "StartProbe" when
\* the operation before it was StartProbe of the same probe, for
\* StopAllProbes, "StopAllProbes" when the operation before it was one too.
Op(op, name, err) == [op |-> op, name |-> name, err |-> err, after |-> ""]

(***************************************************************************)
(* The exported operations.                                                *)
(***************************************************************************)
\* What options.BuildProbeOptions and probes.CreateProbe return for a
\* definition: both succeed, or one of them fails.
BuildResults == {"ok", "optsErr", "createErr"}

\* The error addProbe (lines 91-121) returns for the definition p on the
\* registry reg; "nil" for none.
addProbeErr(p, build, reg) ==
    LET runHere == runHereOf[p.runOn]
    IN  IF runHere = "error" THEN "RegexpError"
        ELSE IF runHere = "skip" THEN "nil"
        ELSE IF p.name \in DOMAIN reg THEN "AlreadyExists"
        ELSE IF build # "ok" THEN "Unknown"
        ELSE "nil"

\* Variant of addProbeRegistry without the return of lines 100-102.
addProbeRegistry_NoHostFilter(p, build, reg) ==
    IF /\ runHereOf[p.runOn] # "error"
       /\ p.name \notin DOMAIN reg
       /\ build \in {"ok", "notCalled"}
    THEN MapPut(reg, p.name, [interval |-> p.interval])
    ELSE reg

\* Variant of addProbeRegistry without the check of line 104.
addProbeRegistry_NoExistsCheck(p, build, reg) ==
    IF runHereOf[p.runOn] = "run" /\ build \in {"ok", "notCalled"}
    THEN MapPut(reg, p.name, [interval |-> p.interval])
    ELSE reg

\* The registry addProbe (lines 91-121) leaves: the probe is inserted on
\* line 118 when none of the returns before it was taken.
addProbeRegistry(p, build, reg) ==
    IF /\ runHereOf[p.runOn] = "run"
       /\ p.name \notin DOMAIN reg
       /\ build = "ok"
    THEN MapPut(reg, p.name, [interval |-> p.interval])
    ELSE reg

\* options.BuildProbeOptions and probes.CreateProbe are called (lines 108
\* and 114) only when none of the returns of lines 98-105 was taken.
BuildCalls(p, reg) ==
    IF runHereOf[p.runOn] = "run" /\ p.name \notin DOMAIN reg
    THEN BuildResults
    ELSE {"notCalled"}

addProbe(p) ==
    /\ ~panicked
    /\ \E build \in BuildCalls(p, Probes) :
          /\ lastOp' = Op("AddProbe", p.name, addProbeErr(p, build, Probes))
          /\ Probes' = addProbeRegistry(p, build, Probes)
    /\ UNCHANGED <<probeCancelFunc, workers, panicked, ctxDone, dataChan,
                   sysvarsSend, nextEm, startVars, pipeVars, cfgVars, lockVars>>

AddProbe == \E p \in ProbeDefs : addProbe(p)

\* The probe definitions of the configuration file, pr.c.GetProbe().
ConfigProbes ==
    {[name |-> "p1", runOn |-> <<"a", ".">>, interval |-> 10 * Second]}

\* The loop of Init (lines 197-201) registers the configured probes before
\* Start is called; an error of addProbe makes Init fail (line 199).
InitProbes ==
    \E p \in ConfigProbes : ~Started /\ addProbe(p) /\ lastOp'.err = "nil"

\* The probe definitions of the configuration files whose probes are
\* started with jitter: two probes of interval 10s and a third one whose
\* interval is 30s, zero, or half a millisecond.
JitterConfigProbes ==
    {[name |-> "p1", runOn |-> <<>>, interval |-> 10 * Second],
     [name |-> "p2", runOn |-> <<>>, interval |-> 10 * Second],
     [name |-> "p3", runOn |-> <<>>, interval |-> 30 * Second],
     [name |-> "p3", runOn |-> <<>>, interval |-> 0],
     [name |-> "p3", runOn |-> <<>>, interval |-> 500]}

\* The loop of Init (lines 197-201) on that configuration.
InitJitterProbes ==
    \E p \in JitterConfigProbes :
        ~Started /\ addProbe(p) /\ lastOp'.err = "nil"

\* Variant of removeProbeErr without the check of line 127.
removeProbeErr_NoCheck(name, reg) == "nil"

\* The error removeProbe (lines 123-133) returns; "nil" for none.
removeProbeErr(name, reg) ==
    IF name \notin DOMAIN reg THEN "NotFound" ELSE "nil"

\* removeProbe (lines 123-133).
removeProbe(name) ==
    /\ ~panicked
    /\ lastOp' = Op("RemoveProbe", name, removeProbeErr(name, Probes))
    /\ IF removeProbeErr(name, Probes) = "NotFound"
       THEN UNCHANGED <<Probes, probeCancelFunc, workers>>
       ELSE /\ workers' = stopProbeWorkers(workers, probeCancelFunc, name)
            /\ probeCancelFunc' = stopProbeCancelFunc(probeCancelFunc, name)
            /\ Probes' = MapDelete(Probes, name)
    /\ UNCHANGED <<panicked, ctxDone, dataChan, sysvarsSend, nextEm,
                   startVars, pipeVars, cfgVars, lockVars>>

RemoveProbe == \E name \in Names : removeProbe(name)

\* getProbes (lines 318-328): a copy of the registry, made under pr.mu.
getProbes(reg) == [n \in DOMAIN reg |-> [interval |-> reg[n].interval]]

\* startProbe (lines 265-270) with the body of _startProbeWithNoLock.
\* context.WithCancel panics on a nil parent, before anything is stored.
startProbe(name, op) ==
    /\ ~panicked
    /\ lastOp' = Op(op, name, "nil")
    /\ IF ~Started
       THEN /\ panicked' = TRUE
            /\ UNCHANGED <<probeCancelFunc, workers>>
       ELSE /\ probeCancelFunc' = startProbeCancelFunc(probeCancelFunc, workers, name)
            /\ workers' = startProbeWorkers(workers, Probes, name)
            /\ panicked' = (name \notin DOMAIN Probes)
    /\ UNCHANGED <<Probes, ctxDone, dataChan, sysvarsSend, nextEm, pipeVars,
                   cfgVars, lockVars, probeStartContext, buckets>>

\* StartProbe (lines 273-275).  The calls are bounded so that, with the
\* start tasks still pending, at most MaxWorkers workers are spawned.
StartProbe ==
    \E name \in Names :
        /\ Len(workers) + Cardinality(startTasks) < MaxWorkers
        /\ startProbe(name, "StartProbe")
        /\ UNCHANGED startTasks

\* StartAllProbes (lines 278-285).
StartAllProbes ==
    /\ ~panicked
    /\ Len(workers) + Cardinality(startTasks) + Cardinality(DOMAIN Probes)
          <= MaxWorkers
    /\ lastOp' = Op("StartAllProbes", "", "nil")
    /\ IF ~Started /\ DOMAIN Probes # {}
       THEN /\ panicked' = TRUE
            /\ UNCHANGED <<probeCancelFunc, workers>>
       ELSE /\ probeCancelFunc' =
                  startAllCancelFunc(probeCancelFunc, workers, DOMAIN Probes)
            /\ workers' = startAllWorkers(workers, Probes, DOMAIN Probes)
            /\ UNCHANGED panicked
    /\ UNCHANGED <<Probes, ctxDone, dataChan, sysvarsSend, nextEm, startVars,
                   pipeVars, cfgVars, lockVars>>

\* StopProbe (lines 301-306).
StopProbe ==
    \E name \in Names :
        /\ ~panicked
        /\ workers' = stopProbeWorkers(workers, probeCancelFunc, name)
        /\ probeCancelFunc' = stopProbeCancelFunc(probeCancelFunc, name)
        /\ lastOp' = [Op("StopProbe", name, "nil") EXCEPT !.after =
                         IF lastOp.op = "StartProbe" /\ lastOp.name = name
                         THEN "StartProbe" ELSE ""]
        /\ UNCHANGED <<Probes, panicked, ctxDone, dataChan, sysvarsSend, nextEm,
                       startVars, pipeVars, cfgVars, lockVars>>

\* StopAllProbes (lines 309-316).
StopAllProbes ==
    /\ ~panicked
    /\ workers' = stopAllWorkers(workers, probeCancelFunc, DOMAIN Probes)
    /\ probeCancelFunc' = stopAllCancelFunc(probeCancelFunc, DOMAIN Probes)
    /\ lastOp' = [Op("StopAllProbes", "", "nil") EXCEPT !.after =
                     IF lastOp.op = "StopAllProbes"
                     THEN "StopAllProbes" ELSE ""]
    /\ UNCHANGED <<Probes, panicked, ctxDone, dataChan, sysvarsSend, nextEm,
                   startVars, pipeVars, cfgVars, lockVars>>

(***************************************************************************)
(* Start (lines 218-257) and the goroutines it spawns.                     *)
(***************************************************************************)
\* The sequences that list every element of the set S once: the orders in
\* which a range over a Go map can visit S.
Orders(S) ==
    {q \in [1..Cardinality(S) -> S] : \A x \in S : \E i \in DOMAIN q : q[i] = x}

\* The intervals of S in increasing order.
RECURSIVE SortedIntervals(_)
SortedIntervals(S) ==
    IF S = {} THEN <<>>
    ELSE LET m == CHOOSE x \in S : \A y \in S : x <= y
         IN  <<m>> \o SortedIntervals(S \ {m})

RECURSIVE intervalBuckets(_, _)
\* The map intervalBuckets of lines 341-344, built by a range over the
\* registry reg that visits its probes in the order q: every probe is
\* appended to the slice stored under its interval.
intervalBuckets(reg, q) ==
    IF q = <<>> THEN EmptyMap
    ELSE LET done == intervalBuckets(reg, SubSeq(q, 1, Len(q) - 1))
             n == q[Len(q)]
             i == reg[n].interval
         IN  MapPut(done, i, (IF i \in DOMAIN done THEN done[i] ELSE <<>>) \o <<n>>)

\* The goroutines of line 347, one for each entry of intervalBuckets, by
\* increasing interval.  pc is "draw" before line 349 and "issue" from line
\* 352 on; delay is randomDelayMsec; elapsed is the time the goroutine has
\* slept so far; k counts the turns of the loop of line 355, and issuedAt
\* lists the probes whose start it issued with the time of each go statement.
bucketGoroutines(ib) ==
    LET ivs == SortedIntervals(DOMAIN ib)
    IN  [b \in 1..Len(ivs) |->
            [interval |-> ivs[b], probeInfos |-> ib[ivs[b]], pc |-> "draw",
             delay |-> 0, elapsed |-> 0, k |-> 0, issuedAt |-> <<>>]]

\* startProbesWithJitter (lines 336-361) up to the go statements of line
\* 347: the lists of bucket goroutines the range of line 342 can produce.
BucketLists(reg) ==
    {bucketGoroutines(intervalBuckets(reg, q)) : q \in Orders(DOMAIN reg)}

\* int64(interval.Seconds() * 1000) of line 349: the interval in whole
\* milliseconds.
DrawRange(interval) == interval \div Millisecond

\* The values rand.Int63n(n) can return for a positive n: the ends and the
\* middle of [0, n).
Int63n(n) == {d \in {0, n \div 2, n - 1} : 0 <= d /\ d < n}

\* Variant of interProbeDelay that does not divide by the number of probes.
interProbeDelay_NoDivide(interval, count) == interval

\* interProbeDelay of line 352.
interProbeDelay(interval, count) == interval \div count

\* Start (lines 218-257): the channel is made, the distribution goroutine
\* spawned, and the probes started with or without jitter.
Start ==
    /\ ~panicked
    /\ ~Started
    /\ probeStartContext' = "ctx"
    /\ dataChan' = <<>>
    /\ pipe' = [pc |-> "recv", em |-> NoEm, idx |-> 0]
    /\ lastOp' = Op("Start", "", "nil")
    /\ IF disableJitter
       THEN /\ startTasks' = DOMAIN Probes
            /\ buckets' = <<>>
       ELSE /\ startTasks' = {}
            /\ buckets' \in BucketLists(Probes)
    /\ UNCHANGED <<Probes, probeCancelFunc, workers, panicked, ctxDone,
                   sysvarsSend, nextEm, written, warnings, readLog, sentLog,
                   cfgVars, lockVars>>

\* The goroutine of a bucket draws its delay and sleeps (lines 349-350).
\* rand.Int63n panics when its argument is not positive.
BucketDraw ==
    \E b \in DOMAIN buckets :
        /\ ~panicked
        /\ buckets[b].pc = "draw"
        /\ IF DrawRange(buckets[b].interval) <= 0
           THEN panicked' = TRUE /\ UNCHANGED buckets
           ELSE /\ \E d \in Int63n(DrawRange(buckets[b].interval)) :
                      buckets' = [buckets EXCEPT ![b].pc = "issue",
                                                 ![b].delay = d,
                                                 ![b].elapsed = d * Millisecond]
                /\ UNCHANGED panicked
        /\ UNCHANGED <<Probes, probeCancelFunc, workers, lastOp, ctxDone,
                       dataChan, sysvarsSend, nextEm, probeStartContext,
                       startTasks, pipeVars, cfgVars, lockVars>>

\* One turn of the loop of lines 355-359: the start of the next probe of
\* the bucket is handed to a goroutine of its own (line 357) and the bucket
\* goroutine sleeps for interProbeDelay (line 358).
BucketIssue ==
    \E b \in DOMAIN buckets :
        /\ ~panicked
        /\ buckets[b].pc = "issue"
        /\ buckets[b].k < Len(buckets[b].probeInfos)
        /\ startTasks' = startTasks \cup {buckets[b].probeInfos[buckets[b].k + 1]}
        /\ buckets' =
              [buckets EXCEPT
                 ![b].k = @ + 1,
                 ![b].issuedAt =
                     Append(@, [name |-> buckets[b].probeInfos[buckets[b].k + 1],
                                at |-> buckets[b].elapsed]),
                 ![b].elapsed =
                     @ + interProbeDelay(buckets[b].interval,
                                         Len(buckets[b].probeInfos))]
        /\ UNCHANGED <<lifecycleVars, ctxDone, dataChan, sysvarsSend, nextEm,
                       probeStartContext, pipeVars, cfgVars, lockVars>>

\* A goroutine `go pr.startProbe(ctx, name)` of line 252 or 357 runs.
StartTaskRun ==
    \E name \in startTasks :
        /\ startProbe(name, "startProbe")
        /\ startTasks' = startTasks \ {name}

\* The context given to Start is cancelled by its owner.
CancelStartContext ==
    /\ ~panicked
    /\ Started
    /\ ~ctxDone
    /\ ctxDone' = TRUE
    /\ UNCHANGED <<lifecycleVars, dataChan, sysvarsSend, nextEm, startVars,
                   pipeVars, cfgVars, lockVars>>

(***************************************************************************)
(* The producers of dataChan.                                              *)
(***************************************************************************)
\* The worker goroutine of line 263 begins to run Start(probeCtx, dataChan).
WorkerBegin ==
    \E w \in DOMAIN workers :
        /\ ~panicked
        /\ workers[w].pc = "spawned"
        /\ workers' = [workers EXCEPT ![w].pc = "running"]
        /\ UNCHANGED <<Probes, probeCancelFunc, lastOp, panicked, ctxDone,
                       dataChan, sysvarsSend, nextEm, startVars, pipeVars, cfgVars, lockVars>>

\* A running probe whose context is not done makes an EventMetrics and
\* reaches its send on dataChan.
WorkerProduce ==
    \E w \in DOMAIN workers, size \in EventSizes :
        /\ ~panicked
        /\ workers[w].pc = "running"
        /\ ~CtxCancelled(w)
        /\ nextEm <= MaxEvents
        /\ workers' = [workers EXCEPT ![w].pc = "sending",
                                      ![w].send = [id |-> nextEm, size |-> size]]
        /\ nextEm' = nextEm + 1
        /\ UNCHANGED <<Probes, probeCancelFunc, lastOp, panicked, ctxDone,
                       dataChan, sysvarsSend, startVars, pipeVars, cfgVars, lockVars>>

\* A send on the buffered channel completes when the buffer has room.
ChanSend(ch, em) == Append(ch, em)
\* Variant of ChanHasRoom that admits one event more than the capacity.
ChanHasRoom_OffByOne(ch) == Len(ch) <= ChanCap

ChanHasRoom(ch) == Len(ch) < ChanCap

WorkerSend ==
    \E w \in DOMAIN workers :
        /\ ~panicked
        /\ workers[w].pc = "sending"
        /\ ChanHasRoom(dataChan)
        /\ dataChan' = ChanSend(dataChan, workers[w].send)
        /\ sentLog' = Append(sentLog, workers[w].send)
        /\ workers' = [workers EXCEPT ![w].pc = "running", ![w].send = NoEm]
        /\ UNCHANGED <<Probes, probeCancelFunc, lastOp, panicked, ctxDone,
                       sysvarsSend, nextEm, startVars, pipe, written, warnings,
                       readLog, cfgVars, lockVars>>

\* A running probe sees that its context is done and returns.
WorkerReturn ==
    \E w \in DOMAIN workers :
        /\ ~panicked
        /\ workers[w].pc = "running"
        /\ CtxCancelled(w)
        /\ workers' = [workers EXCEPT ![w].pc = "returned"]
        /\ UNCHANGED <<Probes, probeCancelFunc, lastOp, panicked, ctxDone,
                       dataChan, sysvarsSend, nextEm, startVars, pipeVars, cfgVars, lockVars>>

\* sysvars.Start (line 243) or a server (line 247) makes an EventMetrics.
SysvarsProduce ==
    \E size \in EventSizes :
        /\ ~panicked
        /\ Started
        /\ ~ctxDone
        /\ sysvarsSend = NoEm
        /\ nextEm <= MaxEvents
        /\ sysvarsSend' = [id |-> nextEm, size |-> size]
        /\ nextEm' = nextEm + 1
        /\ UNCHANGED <<lifecycleVars, ctxDone, dataChan, startVars, pipeVars,
                       cfgVars, lockVars>>

SysvarsSend ==
    /\ ~panicked
    /\ sysvarsSend # NoEm
    /\ ChanHasRoom(dataChan)
    /\ dataChan' = ChanSend(dataChan, sysvarsSend)
    /\ sentLog' = Append(sentLog, sysvarsSend)
    /\ sysvarsSend' = NoEm
    /\ UNCHANGED <<lifecycleVars, ctxDone, nextEm, startVars, pipe, written,
                   warnings, readLog, cfgVars, lockVars>>

(***************************************************************************)
(* The distribution goroutine of Start (lines 222-240).                    *)
(***************************************************************************)
\* len(em.String()) (line 226).
StringLen(em) == em.size

\* Variant of TooLarge whose limit is one too high.
TooLarge_OffByOne(em) == StringLen(em) > MaxLogEntrySize + 1

\* The size filter of line 227.
TooLarge(em) == StringLen(em) > MaxLogEntrySize

\* surfacer.Write(ctx, em) is called on surfacer s (line 237).
SurfacerWrite(wr, s, em) == [wr EXCEPT ![s] = Append(@, em)]

\* Variant of PipeRecv that does not wait for the loop over the surfacers
\* to end before it receives the next event into em.
PipeRecv_NoWait ==
    /\ ~panicked
    /\ pipe.pc \in {"recv", "write"}
    /\ dataChan # <<>>
    /\ dataChan' = Tail(dataChan)
    /\ readLog' = Append(readLog, Head(dataChan))
    /\ IF TooLarge(Head(dataChan))
       THEN /\ warnings' = Append(warnings, Head(dataChan).id)
            /\ pipe' = [pc |-> "recv", em |-> NoEm, idx |-> 0]
       ELSE /\ UNCHANGED warnings
            /\ pipe' = [pc |-> "write", em |-> Head(dataChan), idx |-> 1]
    /\ UNCHANGED <<lifecycleVars, ctxDone, sysvarsSend, nextEm, startVars,
                   written, sentLog, cfgVars, lockVars>>

\* Lines 225-230: an event is received; one that is too large is reported
\* and dropped, any other goes to the loop over the surfacers.
PipeRecv ==
    /\ ~panicked
    /\ pipe.pc = "recv"
    /\ dataChan # <<>>
    /\ dataChan' = Tail(dataChan)
    /\ readLog' = Append(readLog, Head(dataChan))
    /\ IF TooLarge(Head(dataChan))
       THEN /\ warnings' = Append(warnings, Head(dataChan).id)
            /\ pipe' = [pc |-> "recv", em |-> NoEm, idx |-> 0]
       ELSE /\ UNCHANGED warnings
            /\ pipe' = IF NumSurfacers = 0
                       THEN [pc |-> "recv", em |-> NoEm, idx |-> 0]
                       ELSE [pc |-> "write", em |-> Head(dataChan), idx |-> 1]
    /\ UNCHANGED <<lifecycleVars, ctxDone, sysvarsSend, nextEm, startVars,
                   written, sentLog, cfgVars, lockVars>>

\* Line 237: Write is called on the next surfacer of pr.Surfacers.
PipeWriteCall ==
    /\ ~panicked
    /\ pipe.pc = "write"
    /\ written' = SurfacerWrite(written, pipe.idx, pipe.em)
    /\ pipe' = [pipe EXCEPT !.pc = "inwrite"]
    /\ UNCHANGED <<lifecycleVars, ctxDone, dataChan, sysvarsSend, nextEm,
                   startVars, warnings, readLog, sentLog, cfgVars, lockVars>>

\* Variant of PipeWriteReturn that leaves the loop after the first surfacer.
PipeWriteReturn_Break ==
    /\ ~panicked
    /\ pipe.pc = "inwrite"
    /\ pipe.idx \notin stuck
    /\ pipe' = [pc |-> "recv", em |-> NoEm, idx |-> 0]
    /\ UNCHANGED <<lifecycleVars, ctxDone, dataChan, sysvarsSend, nextEm,
                   startVars, written, warnings, readLog, sentLog, cfgVars, lockVars>>

\* Variant of PipeWriteReturn that does not wait for Write to return, as
\* with `go surfacer.Write(...)` on line 237.
PipeWriteReturn_NoWait ==
    /\ ~panicked
    /\ pipe.pc = "inwrite"
    /\ pipe' = IF pipe.idx < NumSurfacers
               THEN [pipe EXCEPT !.pc = "write", !.idx = @ + 1]
               ELSE [pc |-> "recv", em |-> NoEm, idx |-> 0]
    /\ UNCHANGED <<lifecycleVars, ctxDone, dataChan, sysvarsSend, nextEm,
                   startVars, written, warnings, readLog, sentLog, cfgVars, lockVars>>

\* The Write of line 237 returns: the loop goes to the next surfacer, or
\* back to the receive of line 225 after the last one.
PipeWriteReturn ==
    /\ ~panicked
    /\ pipe.pc = "inwrite"
    /\ pipe.idx \notin stuck
    /\ pipe' = IF pipe.idx < NumSurfacers
               THEN [pipe EXCEPT !.pc = "write", !.idx = @ + 1]
               ELSE [pc |-> "recv", em |-> NoEm, idx |-> 0]
    /\ UNCHANGED <<lifecycleVars, ctxDone, dataChan, sysvarsSend, nextEm,
                   startVars, written, warnings, readLog, sentLog, cfgVars, lockVars>>

(***************************************************************************)
(* The mutex pr.mu, with AddProbe and RemoveProbe called by concurrent     *)
(* tasks: Lock, the body and the deferred Unlock are steps of their own.   *)
(***************************************************************************)
\* The registries that hold some of the probes the callers name.
Registries == UNION {[S -> [interval : Intervals]] : S \in SUBSET Names}

NewCall(op, def) ==
    [op |-> op, def |-> def, pc |-> "lock", build |-> "notCalled",
     err |-> "nil", acc |-> "none"]

\* The calls a task can make for the probe name n: none, RemoveProbe(n), or
\* AddProbe of a definition of that name.
CallsOf(n) ==
    {NoCall} \cup {NewCall("RemoveProbe", [NoDef EXCEPT !.name = n])}
             \cup {NewCall("AddProbe", p) : p \in {q \in ProbeDefs : q.name = n}}

\* The calls are made on an initialized Prober that was not started: the
\* registry holds some probes, each name is the argument of at most one call.
RegistryInit ==
    /\ Probes \in Registries
    /\ reg0 = Probes
    /\ calls \in [Names -> UNION {CallsOf(n) : n \in Names}]
    /\ \A n \in Names : calls[n] \in CallsOf(n)
    /\ probeCancelFunc = EmptyMap
    /\ probeStartContext = "nil"
    /\ ctxDone = FALSE
    /\ workers = <<>>
    /\ startTasks = {}
    /\ buckets = <<>>
    /\ dataChan = <<>>
    /\ sysvarsSend = NoEm
    /\ pipe = [pc |-> "off", em |-> NoEm, idx |-> 0]
    /\ written = [s \in Surfacers |-> <<>>]
    /\ warnings = <<>>
    /\ readLog = <<>>
    /\ sentLog = <<>>
    /\ nextEm = 1
    /\ stuck = {}
    /\ disableJitter \in BOOLEAN
    /\ lastOp = [op |-> "none", name |-> "", err |-> "nil", after |-> ""]
    /\ panicked = FALSE
    /\ mu = ""
    /\ iter = "off"
    /\ raced = FALSE

\* Variant of MuFree with which Lock does not wait for the holder.
MuFree_Always(m) == TRUE

\* sync.Mutex.Lock (lines 92, 124) returns when no task holds the mutex.
MuFree(m) == m = ""

\* The call of n is in its critical section.
InCritical(n) == calls[n].pc \in {"locked", "unlock"}

\* The range of Start over pr.Probes is in progress.
Ranging == iter \in {"ranging", "raced"}

\* How the body of the call c uses pr.Probes on the registry reg: AddProbe
\* reads it on line 104 and writes it on line 118, unless it returned
\* before; RemoveProbe reads it on line 127 and writes it on line 131.
bodyAccess(c, build, reg) ==
    IF c.op = "AddProbe"
    THEN IF runHereOf[c.def.runOn] # "run" THEN "none"
         ELSE IF c.def.name \in DOMAIN reg \/ build # "ok" THEN "read"
         ELSE "write"
    ELSE IF c.def.name \in DOMAIN reg THEN "write" ELSE "read"

\* The error the body of the call c returns.
bodyErr(c, build, reg) ==
    IF c.op = "AddProbe" THEN addProbeErr(c.def, build, reg)
    ELSE removeProbeErr(c.def.name, reg)

\* The registry the body of the call c leaves.
bodyRegistry(c, build, reg) ==
    IF c.op = "AddProbe" THEN addProbeRegistry(c.def, build, reg)
    ELSE MapDelete(reg, c.def.name)

\* pr.mu.Lock() of lines 92 and 124.
CallLock ==
    \E n \in Names :
        /\ ~panicked
        /\ calls[n].pc = "lock"
        /\ MuFree(mu)
        /\ mu' = n
        /\ calls' = [calls EXCEPT ![n].pc = "locked"]
        /\ UNCHANGED <<lifecycleVars, ctxDone, dataChan, sysvarsSend, nextEm,
                       startVars, pipeVars, cfgVars, reg0, iter, raced>>

\* The body of addProbe (lines 95-120) or removeProbe (lines 127-132).  An
\* access to the map that is not ordered with a write of another task is a
\* data race: the map is left in any state and the runtime may stop the
\* process ("concurrent map writes", "concurrent map iteration and map
\* write").
CallBody ==
    \E n \in Names :
        /\ ~panicked
        /\ calls[n].pc = "locked"
        /\ \E build \in (IF calls[n].op = "AddProbe"
                          THEN BuildCalls(calls[n].def, Probes)
                          ELSE {"notCalled"}) :
              LET c == calls[n]
                  acc == bodyAccess(c, build, Probes)
                  callRace == /\ acc # "none"
                              /\ \E m \in Names \ {n} :
                                    /\ InCritical(m)
                                    /\ acc = "write" \/ calls[m].acc = "write"
                  rangeRace == Ranging /\ acc = "write"
              IN  /\ calls' = [calls EXCEPT ![n] =
                                 [c EXCEPT !.pc = "unlock", !.build = build,
                                           !.err = bodyErr(c, build, Probes),
                                           !.acc = acc]]
                  /\ iter' = IF rangeRace THEN "raced" ELSE iter
                  /\ raced' = (raced \/ callRace \/ rangeRace)
                  /\ IF callRace
                     THEN /\ Probes' \in Registries
                          /\ UNCHANGED <<probeCancelFunc, workers>>
                     ELSE /\ Probes' = bodyRegistry(c, build, Probes)
                          /\ IF c.op = "RemoveProbe" /\ acc = "write"
                             THEN /\ workers' = stopProbeWorkers(
                                                   workers, probeCancelFunc, n)
                                  /\ probeCancelFunc' =
                                        stopProbeCancelFunc(probeCancelFunc, n)
                             ELSE UNCHANGED <<probeCancelFunc, workers>>
                  /\ IF callRace \/ rangeRace
                     THEN panicked' \in BOOLEAN
                     ELSE UNCHANGED panicked
        /\ UNCHANGED <<lastOp, ctxDone, dataChan, sysvarsSend, nextEm,
                       startVars, pipeVars, cfgVars, mu, reg0>>

\* The deferred pr.mu.Unlock() of lines 93 and 125.
CallUnlock ==
    \E n \in Names :
        /\ ~panicked
        /\ calls[n].pc = "unlock"
        /\ mu' = ""
        /\ calls' = [calls EXCEPT ![n].pc = "done"]
        /\ UNCHANGED <<lifecycleVars, ctxDone, dataChan, sysvarsSend, nextEm,
                       startVars, pipeVars, cfgVars, reg0, iter, raced>>

\* Start (lines 218-257) up to the range over pr.Probes of line 251 or, in
\* startProbesWithJitter, of line 342: Start does not take pr.mu.
StartRangeBegin ==
    /\ ~panicked
    /\ ~Started
    /\ iter = "off"
    /\ probeStartContext' = "ctx"
    /\ dataChan' = <<>>
    /\ pipe' = [pc |-> "recv", em |-> NoEm, idx |-> 0]
    /\ lastOp' = Op("Start", "", "nil")
    /\ iter' = "ranging"
    /\ UNCHANGED <<Probes, probeCancelFunc, workers, panicked, ctxDone,
                   sysvarsSend, nextEm, startTasks, buckets, written, warnings,
                   readLog, sentLog, cfgVars, mu, calls, reg0, raced>>

\* The range of Start ends: the start tasks (line 252) or the buckets
\* (lines 342-347) are made of the probes the range saw, which are those of
\* the registry unless a write raced with the range.
StartRangeEnd ==
    /\ ~panicked
    /\ Ranging
    /\ iter' = "done"
    /\ \E seen \in (IF iter = "raced" THEN Registries ELSE {Probes}) :
          IF disableJitter
          THEN /\ startTasks' = DOMAIN seen
               /\ buckets' = <<>>
          ELSE /\ startTasks' = {}
               /\ buckets' \in BucketLists(seen)
    /\ UNCHANGED <<lifecycleVars, probeStartContext, ctxDone, dataChan,
                   sysvarsSend, nextEm, pipeVars, cfgVars, mu, calls, reg0,
                   raced>>

Next ==
    \/ InitProbes
    \/ InitJitterProbes
    \/ AddProbe
    \/ RemoveProbe
    \/ StartProbe
    \/ StartAllProbes
    \/ StopProbe
    \/ StopAllProbes
    \/ Start
    \/ BucketDraw
    \/ BucketIssue
    \/ StartTaskRun
    \/ CancelStartContext
    \/ WorkerBegin
    \/ WorkerProduce
    \/ WorkerSend
    \/ WorkerReturn
    \/ SysvarsProduce
    \/ SysvarsSend
    \/ PipeRecv
    \/ PipeWriteCall
    \/ PipeWriteReturn
    \/ CallLock
    \/ CallBody
    \/ CallUnlock
    \/ StartRangeBegin
    \/ StartRangeEnd

\* The whole program.
Spec == Init /\ [][Next]_vars

\* The operations on the registry and on the probes' contexts, with the
\* probes started without jitter, while no producer emits an event.
LifecycleNext ==
    \/ AddProbe
    \/ RemoveProbe
    \/ StartProbe
    \/ StartAllProbes
    \/ StopProbe
    \/ StopAllProbes
    \/ Start
    \/ StartTaskRun
    \/ CancelStartContext
    \/ WorkerBegin
    \/ WorkerReturn

LifecycleInit == Init /\ stuck = {} /\ disableJitter = TRUE

LifecycleSpec == LifecycleInit /\ [][LifecycleNext]_vars

\* The producers and the consumer of dataChan: the probes are registered,
\* started by Start without jitter and run until the context given to
\* Start is cancelled.
PipelineNext ==
    \/ InitProbes
    \/ Start
    \/ StartTaskRun
    \/ CancelStartContext
    \/ WorkerBegin
    \/ WorkerProduce
    \/ WorkerSend
    \/ WorkerReturn
    \/ SysvarsProduce
    \/ SysvarsSend
    \/ PipeRecv
    \/ PipeWriteCall
    \/ PipeWriteReturn

PipelineInit == Init /\ disableJitter = TRUE

PipelineSpec == PipelineInit /\ [][PipelineNext]_vars

\* The Go scheduler runs every goroutine that can take a step: the
\* distribution goroutine is not starved while it has something to do.
PipelineFairSpec ==
    /\ PipelineSpec
    /\ WF_vars(PipeRecv)
    /\ WF_vars(PipeWriteCall)
    /\ WF_vars(PipeWriteReturn)

\* Concurrent calls of AddProbe and RemoveProbe for distinct names.
RegistryNext ==
    \/ CallLock
    \/ CallBody
    \/ CallUnlock

RegistrySpec == RegistryInit /\ [][RegistryNext]_vars

\* The same calls while Start ranges over the registry.
RaceNext ==
    \/ CallLock
    \/ CallBody
    \/ CallUnlock
    \/ StartRangeBegin
    \/ StartRangeEnd

RaceSpec == RegistryInit /\ [][RaceNext]_vars

\* The start of the probes by Start, with or without jitter: the probes
\* are registered by Init, Start runs, and no other operation is called.
JitterNext ==
    \/ InitJitterProbes
    \/ Start
    \/ BucketDraw
    \/ BucketIssue
    \/ StartTaskRun
    \/ WorkerBegin

JitterInit == Init /\ stuck = {}

JitterSpec == JitterInit /\ [][JitterNext]_vars

\* The Go scheduler runs every goroutine that can take a step, and a sleep
\* ends: the bucket goroutines, the start tasks and the workers go on.
JitterFairSpec ==
    /\ JitterSpec
    /\ WF_vars(BucketDraw)
    /\ WF_vars(BucketIssue)
    /\ WF_vars(StartTaskRun)
    /\ WF_vars(WorkerBegin)

(***************************************************************************)
(* Properties of the registry and of the probes' contexts.                 *)
(***************************************************************************)
\* The worker goroutine w was spawned (line 263 did not panic).
WorkerStarted(w) == workers[w].pc # "nogo"

\* The workers spawned for the probe name.
WorkersOf(name) ==
    {w \in DOMAIN workers : WorkerStarted(w) /\ workers[w].name = name}

\* C1: every probe worker that was started and whose context is not
\* cancelled has its cancel function stored under its name in
\* probeCancelFunc: starting a probe that is already running does not leave
\* a running worker without a handle.
C1_RunningWorkerHasItsCancelHandle ==
    \A w \in DOMAIN workers :
        (WorkerStarted(w) /\ ~CtxCancelled(w)) =>
            /\ workers[w].name \in DOMAIN probeCancelFunc
            /\ probeCancelFunc[workers[w].name] = w

\* C2: in the state StopAllProbes leaves, no started worker has a context
\* that is not cancelled, and probeCancelFunc is empty.
C2_StopAllProbesStopsEveryWorker ==
    (lastOp.op = "StopAllProbes" /\ ~panicked) =>
        /\ \A w \in DOMAIN workers : WorkerStarted(w) => CtxCancelled(w)
        /\ DOMAIN probeCancelFunc = {}

\* C3 as claimed: AddProbe of a definition whose name is registered returns
\* AlreadyExists whatever its run_on pattern, and leaves the registry and
\* the cancel-function map as they were.
C3_DuplicateAlwaysAlreadyExists ==
    [][\A p \in ProbeDefs :
          (/\ lastOp'.op = "AddProbe"
           /\ p.name = lastOp'.name
           /\ p.name \in DOMAIN Probes
           /\ addProbe(p)) =>
              /\ lastOp'.err = "AlreadyExists"
              /\ UNCHANGED <<Probes, probeCancelFunc>>]_vars

\* The error AddProbe returns for a registered name, by run_on pattern, read
\* off lines 96-106: the host filter is evaluated before the name is looked up.
DuplicateErr ==
    [runOn \in RunOnPatterns |->
        IF runOn = <<>> \/ (RegexpCompiles(runOn) /\ MatchString(runOn, Hostname))
        THEN "AlreadyExists"
        ELSE IF RegexpCompiles(runOn) THEN "nil" ELSE "RegexpError"]

\* C3 as amended: AddProbe of a definition whose name is registered
\* leaves the registry and the cancel-function map as they were; it returns
\* AlreadyExists when the run_on pattern is empty or matches the hostname,
\* the error of regexp.Compile when the pattern does not compile, and no
\* error when the pattern does not match the hostname.
C3_DuplicateLeavesRegistry ==
    [][(lastOp'.op = "AddProbe" /\ lastOp'.name \in DOMAIN Probes) =>
       \A p \in ProbeDefs :
          (p.name = lastOp'.name /\ addProbe(p)) =>
              /\ UNCHANGED <<Probes, probeCancelFunc>>
              /\ lastOp'.err = DuplicateErr[p.runOn]]_vars

\* AddProbe has returned AlreadyExists for a registered probe.
C3_Witness ==
    /\ lastOp.op = "AddProbe"
    /\ lastOp.err = "AlreadyExists"
    /\ lastOp.name \in DOMAIN Probes
    /\ lastOp.name \in DOMAIN probeCancelFunc

\* C4: RemoveProbe of a registered probe leaves its name in neither the
\* registry nor the cancel-function map, leaves the context of every worker
\* that ran under the name cancelled, and leaves the registry entry, the
\* cancel function and the workers of every other probe as they were.
C4_RemoveProbeStopsAndDeletes ==
    [][\A n \in Names :
          (n \in DOMAIN Probes /\ removeProbe(n)) =>
              /\ n \notin DOMAIN Probes'
              /\ n \notin DOMAIN probeCancelFunc'
              /\ \A w \in WorkersOf(n) : workers'[w].cancelled
              /\ \A m \in Names \ {n} :
                    /\ (m \in DOMAIN Probes) = (m \in DOMAIN Probes')
                    /\ m \in DOMAIN Probes => Probes'[m] = Probes[m]
                    /\ (m \in DOMAIN probeCancelFunc) =
                       (m \in DOMAIN probeCancelFunc')
                    /\ m \in DOMAIN probeCancelFunc =>
                          probeCancelFunc'[m] = probeCancelFunc[m]
                    /\ \A w \in WorkersOf(m) : workers'[w] = workers[w]]_vars

\* C5: when StopProbe of a probe follows StartProbe of that registered
\* probe, with any steps of the worker goroutines in between, no cancel
\* function is left for the name and the context of the worker StartProbe
\* spawned is cancelled, also when that worker has not begun to run.
C5_StartThenStopLeavesNoHandle ==
    (lastOp.op = "StopProbe" /\ lastOp.after = "StartProbe") =>
        /\ lastOp.name \notin DOMAIN probeCancelFunc
        /\ workers # <<>>
        /\ workers[Len(workers)].name = lastOp.name
        /\ workers[Len(workers)].cancelled

\* StopProbe has followed StartProbe before the worker began to run.
C5_Witness ==
    /\ lastOp.op = "StopProbe"
    /\ lastOp.after = "StartProbe"
    /\ lastOp.name \in DOMAIN Probes
    /\ workers # <<>>
    /\ workers[Len(workers)].pc = "spawned"
    /\ workers[Len(workers)].cancelled
    /\ ~ctxDone

(***************************************************************************)
(* Properties of the distribution goroutine.                               *)
(***************************************************************************)
\* The number of times the event e occurs in the sequence q.
Count(q, e) == Cardinality({i \in DOMAIN q : q[i] = e})

\* The events read from dataChan whose rendered form fits the limit, and
\* those whose rendered form exceeds it.
Fits(e) == e.size <= MaxLogEntrySize
FittingRead == SelectSeq(readLog, Fits)

\* The loop has finished with the event at position i of readLog.
Finished(i) == i < Len(readLog) \/ pipe.pc = "recv"

\* C6: every event read from dataChan whose rendered form does not exceed
\* the limit is passed to Write of every surfacer exactly once by the time
\* the loop over the surfacers ends, and never more than once.
C6_FanOutExactlyOnce ==
    \A i \in DOMAIN readLog : \A s \in Surfacers :
        Fits(readLog[i]) =>
            /\ Count(written[s], readLog[i]) <= 1
            /\ Finished(i) => Count(written[s], readLog[i]) = 1

\* Two events have been distributed to every surfacer.
C6_Witness ==
    /\ pipe.pc = "recv"
    /\ Len(FittingRead) >= 2
    /\ \A s \in Surfacers : Len(written[s]) >= 2

\* C7: an event whose rendered form exceeds the limit is passed to no
\* surfacer and reported by one warning, and the goroutine is back at the
\* receive of line 225, ready for the events that follow.
C7_OversizedDropped ==
    \A i \in DOMAIN readLog :
        ~Fits(readLog[i]) =>
            /\ \A s \in Surfacers : Count(written[s], readLog[i]) = 0
            /\ Count(warnings, readLog[i].id) = 1
            /\ i = Len(readLog) => (pipe.pc = "recv" /\ pipe.em = NoEm)

\* An oversized event was dropped and the event read after it was
\* distributed to every surfacer.
C7_Witness ==
    \E i \in DOMAIN readLog :
        /\ ~Fits(readLog[i])
        /\ i < Len(readLog)
        /\ Fits(readLog[i + 1])
        /\ \A s \in Surfacers : Count(written[s], readLog[i + 1]) = 1

\* C10: the events passed to Write of a surfacer are the events read from
\* dataChan that were not dropped, in the order they were read; only the
\* event the loop is distributing may still be missing.
C10_DeliveryInReadOrder ==
    \A s \in Surfacers :
        /\ Len(written[s]) <= Len(FittingRead)
        /\ written[s] = SubSeq(FittingRead, 1, Len(written[s]))
        /\ Len(written[s]) >= Len(FittingRead) - 1
        /\ pipe.pc = "recv" => written[s] = FittingRead

\* Three events were distributed, one of them after a dropped one.
C10_Witness ==
    /\ pipe.pc = "recv"
    /\ Len(FittingRead) >= 2
    /\ Len(readLog) > Len(FittingRead)
    /\ Fits(readLog[Len(readLog)])
    /\ \A s \in Surfacers : written[s] = FittingRead

\* The events the producers hold at their send on dataChan.
PendingSends ==
    {workers[w].send : w \in {v \in DOMAIN workers : workers[v].pc = "sending"}}
        \cup (IF sysvarsSend # NoEm THEN {sysvarsSend} ELSE {})

InSeq(q, id) == \E i \in DOMAIN q : q[i].id = id

\* No event is lost between the producers and the loop: the buffer holds at
\* most its capacity, the events sent are those read followed by those
\* buffered, every event made is at a send or was sent, once, and every
\* event the loop has finished with went to every surfacer or was dropped
\* with a warning.
NoEventLost ==
    /\ Len(dataChan) <= ChanCap
    /\ sentLog = readLog \o dataChan
    /\ \A id \in 1..(nextEm - 1) :
          Cardinality({i \in DOMAIN sentLog : sentLog[i].id = id})
            + Cardinality({e \in PendingSends : e.id = id}) = 1
    /\ \A i \in DOMAIN readLog :
          Finished(i) =>
              \/ \A s \in Surfacers : Count(written[s], readLog[i]) = 1
              \/ Count(warnings, readLog[i].id) = 1

\* A producer at its send while the buffer is full stays there, with its
\* event, until the loop has read an event.
BlockedUntilRead ==
    \A w \in DOMAIN workers :
        (/\ workers[w].pc = "sending"
         /\ Len(dataChan) = ChanCap
         /\ readLog' = readLog) =>
            /\ workers'[w].pc = "sending"
            /\ workers'[w].send = workers[w].send

\* C8: dataChan loses no event: its length stays within its capacity, a
\* producer that sends on the full channel blocks until the loop has read
\* an event, and, while no Write call hangs, every event sent is read by the
\* loop and then passed to every surfacer or dropped by the size filter.
C8_ChannelLosesNoEvent ==
    /\ []NoEventLost
    /\ [][BlockedUntilRead]_vars
    /\ \A id \in 1..MaxEvents :
          (stuck = {} /\ InSeq(dataChan, id)) ~> InSeq(readLog, id)
    /\ \A id \in 1..MaxEvents :
          (stuck = {} /\ InSeq(readLog, id)) ~>
              \/ \A s \in Surfacers : InSeq(written[s], id)
              \/ Count(warnings, id) = 1

\* A producer is blocked at its send on the full channel.
C8_Witness ==
    /\ Len(dataChan) = ChanCap
    /\ \E w \in DOMAIN workers : workers[w].pc = "sending"
    /\ stuck = {}
    /\ pipe.pc = "recv"

\* The event with this id was read and its rendered form fits the limit.
FittingWasRead(id) == \E i \in DOMAIN readLog : readLog[i].id = id /\ Fits(readLog[i])

\* C9 as claimed: when the Write call of a surfacer does not return, every
\* event read that fits the limit is still passed to every other surfacer.
C9_StuckSurfacerStallsNoOther ==
    \A s \in Surfacers : \A id \in 1..MaxEvents :
        (s \notin stuck /\ FittingWasRead(id)) ~> InSeq(written[s], id)

\* The loop is inside a Write call that does not return.
InStuckWrite == pipe.pc = "inwrite" /\ pipe.idx \in stuck

\* C9 as amended: a Write call that does not return stalls the loop: the
\* surfacers up to the stuck one were passed the current event, those after
\* it were not, and from then on no event is read, reported or passed to
\* any surfacer; every event read that fits the limit is passed to every
\* surfacer provided no Write call hangs.
C9_StuckSurfacerStallsLoop ==
    /\ [](InStuckWrite =>
            \A s \in Surfacers :
                Count(written[s], pipe.em) = (IF s <= pipe.idx THEN 1 ELSE 0))
    /\ [][InStuckWrite =>
            UNCHANGED <<pipe, written, readLog, warnings>>]_vars
    /\ \A s \in Surfacers : \A id \in 1..MaxEvents :
          (stuck = {} /\ FittingWasRead(id)) ~> InSeq(written[s], id)

\* The loop is stuck in Write of the first surfacer while events wait.
C9_Witness ==
    /\ InStuckWrite
    /\ pipe.idx < NumSurfacers
    /\ dataChan # <<>>
    /\ \E s \in Surfacers : s \notin stuck /\ written[s] = <<>>
(***************************************************************************)
(* Properties of the jitter scheduler.                                     *)
(***************************************************************************)
\* The bucket goroutines whose slice holds the probe n, once per occurrence.
BucketsOf(n) ==
    {<<b, i>> \in (DOMAIN buckets) \X (1..Cardinality(DOMAIN Probes)) :
        i <= Len(buckets[b].probeInfos) /\ buckets[b].probeInfos[i] = n}

\* The buckets partition the registered probes by interval: one bucket for
\* each distinct interval, every probe once in the bucket of its interval.
BucketsPartitionProbes ==
    /\ Len(buckets) = Cardinality({Probes[n].interval : n \in DOMAIN Probes})
    /\ \A b, c \in DOMAIN buckets :
          buckets[b].interval = buckets[c].interval => b = c
    /\ \A b \in DOMAIN buckets : buckets[b].probeInfos # <<>>
    /\ \A n \in DOMAIN Probes :
          /\ Cardinality(BucketsOf(n)) = 1
          /\ \A x \in BucketsOf(n) : buckets[x[1]].interval = Probes[n].interval

\* The bucket b has drawn its delay in [0, interval) and has issued the
\* start of its k-th probe, in the order of the bucket, at
\* delay + k * (interval / count), within one interval after the delay.
BucketOnSchedule(b) ==
    LET bk == buckets[b]
        count == Len(bk.probeInfos)
        d == bk.delay * Millisecond
    IN  bk.pc = "issue" =>
           /\ 0 <= d /\ d < bk.interval
           /\ Len(bk.issuedAt) <= count
           /\ \A k \in 0..(Len(bk.issuedAt) - 1) :
                 /\ bk.issuedAt[k + 1].name = bk.probeInfos[k + 1]
                 /\ bk.issuedAt[k + 1].at = d + k * (bk.interval \div count)
                 /\ bk.issuedAt[k + 1].at < d + bk.interval

\* The registry holds two probes of interval 10s and one of interval 30s.
TwoTensAndAThirty ==
    /\ Cardinality(DOMAIN Probes) = 3
    /\ Cardinality({n \in DOMAIN Probes : Probes[n].interval = 10 * Second}) = 2
    /\ Cardinality({n \in DOMAIN Probes : Probes[n].interval = 30 * Second}) = 1

\* C11: once Start has run with jitter, the registered probes are
\* partitioned into one bucket for each distinct interval (two probes of 10s
\* and one of 30s give two buckets, of sizes 2 and 1); a bucket that has
\* drawn its delay d, in [0, interval), issues the start of its k-th probe
\* at d + k * (interval / count), so that the two 10s probes are issued 5s
\* apart and every start of a bucket within one interval after d.
C11_JitterBucketsAndSpacing ==
    (Started /\ ~disableJitter) =>
        /\ BucketsPartitionProbes
        /\ \A b \in DOMAIN buckets : BucketOnSchedule(b)
        /\ TwoTensAndAThirty =>
              /\ Len(buckets) = 2
              /\ Len(buckets[1].probeInfos) = 2
              /\ Len(buckets[2].probeInfos) = 1
              /\ Len(buckets[1].issuedAt) = 2 =>
                    buckets[1].issuedAt[2].at - buckets[1].issuedAt[1].at
                        = 5 * Second

\* Both buckets of two 10s probes and one 30s probe have issued all their
\* starts, the first after a delay that is not zero.
C11_Witness ==
    /\ Started
    /\ ~disableJitter
    /\ TwoTensAndAThirty
    /\ Len(buckets) = 2
    /\ buckets[1].delay > 0
    /\ Len(buckets[1].issuedAt) = 2
    /\ Len(buckets[2].issuedAt) = 1

\* C12: the draw of a bucket whose interval is below one millisecond, zero
\* included, does not fail: the process does not panic, and once the bucket
\* has drawn, its delay is zero and it goes on to issue its starts.
C12_ZeroRangeDrawDefaultsToZero ==
    \A b \in DOMAIN buckets :
        DrawRange(buckets[b].interval) <= 0 =>
            /\ ~panicked
            /\ buckets[b].pc = "issue" => buckets[b].delay = 0

(***************************************************************************)
(* Further properties of the registry and of the probes' contexts.         *)
(***************************************************************************)
\* C13: every name that has a cancel function in probeCancelFunc is in the
\* registry, and the start of a worker was never attempted for a name that
\* was not: neither StartProbe with an unregistered name nor a start task
\* that runs after RemoveProbe of its probe stores a cancel function.
C13_CancelHandlesAreRegistered ==
    /\ \A n \in DOMAIN probeCancelFunc : n \in DOMAIN Probes
    /\ \A w \in DOMAIN workers : WorkerStarted(w)

(***************************************************************************)
(* Properties of the concurrent calls.                                     *)
(***************************************************************************)
\* The names for which a call was made, and whether every call returned.
MadeCalls == {n \in Names : calls[n].op # "none"}
AllCallsDone == \A n \in Names : calls[n].pc = "done"

RECURSIVE RunCalls(_, _)
\* The registry left by the calls of the names of q run one after another,
\* in the order of q, from the registry reg.
RunCalls(q, reg) ==
    IF q = <<>> THEN reg
    ELSE RunCalls(Tail(q),
                  bodyRegistry(calls[Head(q)], calls[Head(q)].build, reg))

\* The calls that returned no error, and the AddProbe calls among them
\* whose definition runs on this host.
SuccessfulAdds ==
    {n \in Names : calls[n].op = "AddProbe" /\ calls[n].err = "nil"}
SuccessfulRemoves ==
    {n \in Names : calls[n].op = "RemoveProbe" /\ calls[n].err = "nil"}
InsertingAdds ==
    {n \in SuccessfulAdds :
        runOnThisHost(calls[n].def.runOn, Hostname) = "run"}

\* The registry is the one some sequential order of the calls leaves.
SerialRegistry == \E q \in Orders(MadeCalls) : Probes = RunCalls(q, reg0)

\* C14 as claimed: concurrent AddProbe and RemoveProbe calls for distinct
\* names do not race on the registry, and once all have returned the
\* registry is the one some sequential order of the calls leaves, with as
\* many probes as before plus the adds that returned no error minus the
\* removes that returned no error.
C14_CountBySuccessfulCalls ==
    /\ ~raced
    /\ AllCallsDone =>
          /\ SerialRegistry
          /\ Cardinality(DOMAIN Probes) =
                Cardinality(DOMAIN reg0) + Cardinality(SuccessfulAdds)
                    - Cardinality(SuccessfulRemoves)

\* C14 as amended: the same, where the adds counted are those that returned
\* no error for a definition that runs on this host; an add that the host
\* filter turns into a no-op returns no error and adds no probe.
C14_ConcurrentCallsSerialize ==
    /\ ~raced
    /\ AllCallsDone =>
          /\ SerialRegistry
          /\ Cardinality(DOMAIN Probes) =
                Cardinality(DOMAIN reg0) + Cardinality(InsertingAdds)
                    - Cardinality(SuccessfulRemoves)

\* An AddProbe that inserted its probe and a RemoveProbe that deleted its
\* probe have both returned.
C14_Witness ==
    /\ AllCallsDone
    /\ InsertingAdds # {}
    /\ SuccessfulRemoves # {}
    /\ DOMAIN Probes # DOMAIN reg0

(***************************************************************************)
(* Properties of RemoveProbe, AddProbe and StopAllProbes.                  *)
(***************************************************************************)
\* C15: RemoveProbe of a name that is not registered returns NotFound and
\* leaves the registry, the cancel-function map and every worker as they
\* were.
C15_RemoveUnknownIsNotFound ==
    [][(/\ lastOp'.op = "RemoveProbe"
        /\ lastOp'.name \notin DOMAIN Probes
        /\ removeProbe(lastOp'.name)) =>
            /\ lastOp'.err = "NotFound"
            /\ UNCHANGED <<Probes, probeCancelFunc, workers>>]_vars

\* RemoveProbe has returned NotFound while a worker runs under its handle.
C15_Witness ==
    /\ lastOp.op = "RemoveProbe"
    /\ lastOp.err = "NotFound"
    /\ lastOp.name \notin DOMAIN Probes
    /\ DOMAIN probeCancelFunc # {}
    /\ \E w \in DOMAIN workers : workers[w].pc = "running" /\ ~CtxCancelled(w)

\* The definition p has a run_on pattern that compiles and does not match
\* the hostname.
HostFiltered(p) ==
    /\ p.runOn # <<>>
    /\ RegexpCompiles(p.runOn)
    /\ ~MatchString(p.runOn, Hostname)

\* C16 as claimed: AddProbe of a definition whose run_on pattern is valid
\* and does not match the hostname returns no error, leaves the registry
\* and the cancel-function map as they were, and the snapshot of getProbes
\* has no probe of the definition's name.
C16_FilteredProbeAbsent ==
    [][lastOp'.op = "AddProbe" =>
       \A p \in ProbeDefs :
          (p.name = lastOp'.name /\ HostFiltered(p) /\ addProbe(p)) =>
              /\ lastOp'.err = "nil"
              /\ UNCHANGED <<Probes, probeCancelFunc>>
              /\ p.name \notin DOMAIN getProbes(Probes')]_vars

\* C16 as amended: such an AddProbe returns no error and leaves the
\* registry and the cancel-function map as they were; the snapshot is the
\* one from before the call, so it has no probe of the definition's name
\* unless a probe of that name was registered before the call.
C16_FilteredAddIsNoOp ==
    [][lastOp'.op = "AddProbe" =>
       \A p \in ProbeDefs :
          (p.name = lastOp'.name /\ HostFiltered(p) /\ addProbe(p)) =>
              /\ lastOp'.err = "nil"
              /\ UNCHANGED <<Probes, probeCancelFunc>>
              /\ getProbes(Probes') = Probes
              /\ p.name \notin DOMAIN Probes =>
                    p.name \notin DOMAIN getProbes(Probes')]_vars

\* AddProbe has returned no error and the registry holds another probe but
\* none of the name it was called with.
C16_Witness ==
    /\ lastOp.op = "AddProbe"
    /\ lastOp.err = "nil"
    /\ lastOp.name \notin DOMAIN Probes
    /\ DOMAIN Probes # {}
    /\ DOMAIN probeCancelFunc # {}

\* C17: StopAllProbes called right after StopAllProbes finds no cancel
\* function under any registered name, so that each of its stops is the
\* logged no-op of line 293, and leaves the registry, the cancel-function
\* map and every worker as the first call left them.
C17_StopAllProbesIdempotent ==
    [][(lastOp.op = "StopAllProbes" /\ StopAllProbes) =>
          /\ \A n \in DOMAIN Probes : n \notin DOMAIN probeCancelFunc
          /\ UNCHANGED <<Probes, probeCancelFunc, workers>>]_vars

\* StopAllProbes was called a second time after the first call stopped the
\* workers of two probes.
C17_Witness ==
    /\ lastOp.op = "StopAllProbes"
    /\ lastOp.after = "StopAllProbes"
    /\ Cardinality(DOMAIN Probes) = 2
    /\ \A n \in DOMAIN Probes :
          \E w \in WorkersOf(n) : workers[w].cancelled

(***************************************************************************)
(* Properties of the locking discipline and of Start.                      *)
(***************************************************************************)
\* C18: a task that reads or writes the registry holds pr.mu while it does:
\* the body of a call runs with the mutex held by that call, the range of
\* Start over the registry runs with the mutex held by Start, and no access
\* races with a write made under the mutex.
C18_RegistryAccessUnderMutex ==
    /\ \A n \in Names : calls[n].pc = "locked" => mu = n
    /\ Ranging => mu = "Start"
    /\ ~raced

\* The names of the probes of the configuration.
JitterNames == {p.name : p \in JitterConfigProbes}

\* C19: Start starts the probes in one mode only: without jitter no bucket
\* is made, with jitter every start task comes from a bucket; no probe gets
\* more than one worker, and every probe registered when Start is called
\* eventually has one worker, and its cancel function, when no other
\* operation is called.
C19_EveryProbeStartedOnce ==
    /\ [](disableJitter => buckets = <<>>)
    /\ []((~disableJitter /\ Started) =>
             \A n \in startTasks :
                \E b \in DOMAIN buckets :
                   \E k \in DOMAIN buckets[b].issuedAt :
                      buckets[b].issuedAt[k].name = n)
    /\ [](\A n \in JitterNames : Cardinality(WorkersOf(n)) <= 1)
    /\ \A n \in JitterNames :
          (Started /\ n \in DOMAIN Probes) ~>
              /\ Cardinality(WorkersOf(n)) = 1
              /\ n \in DOMAIN probeCancelFunc

\* C20: a cancel function is stored under a name only while the worker it
\* cancels is active: it has not returned, and neither its own context nor
\* the context given to Start is done.
C20_HandleOnlyWhileWorkerActive ==
    ~panicked =>
        \A n \in DOMAIN probeCancelFunc :
            /\ workers[probeCancelFunc[n]].pc # "returned"
            /\ ~CtxCancelled(probeCancelFunc[n])
====
